---- MODULE Spec2Model ----
\* Model of the transmitter session broker (src/transmitter/src/main.rs):
\* the STREAMERS registry, the StreamerWebSocket and WatcherWebSocket actors,
\* their mailboxes, the HTTP join handlers and the JSON command handlers.
EXTENDS Integers, Sequences, FiniteSets, TLC

\* ---------------------------------------------------------------- bounds
MaxStreamers == 2
MaxWatchers == 2
MaxRequests == 3
MaxFrames == 1
MaxCmdRequests == 2
MaxRoomRequests == 3

StreamerActors == 1..MaxStreamers
WatcherActors == 1..MaxWatchers

\* ---------------------------------------------------------------- inputs
\* Query parameters: absent, empty, or a name.
NoParam == "<absent>"
StreamerNames == {"x", "y"}
WatcherIds == {"a", "b"}
Messages == {"m"}
IdParams == {NoParam, ""} \cup WatcherIds
NameParams == {NoParam, ""} \cup StreamerNames

\* A decoded inbound websocket frame. text: it is Ok(ws::Message::Text);
\* json: serde_json::from_str succeeds; command / message: the value of
\* json.get(..).and_then(as_str), NoField when that is None.
NoField == "<none>"
Commands == {"list", "whois", "broadcast", "ping"}
InboundFrames ==
    {[text |-> FALSE, json |-> FALSE, command |-> NoField, message |-> NoField],
     [text |-> TRUE, json |-> FALSE, command |-> NoField, message |-> NoField]}
    \cup {[text |-> TRUE, json |-> TRUE, command |-> c, message |-> NoField] :
            c \in Commands \cup {NoField}}
    \cup {[text |-> TRUE, json |-> TRUE, command |-> "broadcast", message |-> m] :
            m \in Messages}

\* The frames the clients send in Spec: broadcast commands, with and without
\* a message.
BroadcastFrames == {f \in InboundFrames : f.command = "broadcast"}

\* ---------------------------------------------------------------- state
VARIABLES
    STREAMERS,    \* the global store: name -> streamer actor address
    sState,       \* streamer actor lifecycle: unused, created, running, stopped
    name,         \* StreamerWebSocket.name
    watchers,     \* StreamerWebSocket.watchers: watcher_id -> watcher address
    sMailbox,     \* streamer actor mailbox
    sOut,         \* frames a streamer wrote to its client (ctx.text)
    wState,       \* watcher actor lifecycle
    watcher_id,   \* WatcherWebSocket.watcher_id
    streamer_id,  \* WatcherWebSocket.streamer_id
    wMailbox,     \* watcher actor mailbox
    wOut,         \* frames a watcher wrote to its client
    requests,     \* number of HTTP requests handled
    response,     \* the most recent HTTP response
    frames,       \* number of inbound websocket frames handled
    lastFrame     \* the most recent inbound frame handled

vars == <<STREAMERS, sState, name, watchers, sMailbox, sOut,
          wState, watcher_id, streamer_id, wMailbox, wOut, requests, response,
          frames, lastFrame>>

sVars == <<sState, name, watchers, sMailbox, sOut>>
wVars == <<wState, watcher_id, streamer_id, wMailbox, wOut>>

\* ---------------------------------------------------------------- helpers
EmptyMap == [k \in {} |-> 0]

\* HashMap::insert / remove / get on a map represented as a function.
MapInsert(m, k, v) == [x \in DOMAIN m \cup {k} |-> IF x = k THEN v ELSE m[x]]
MapRemove(m, k) == [x \in DOMAIN m \ {k} |-> m[x]]
MapValues(m) == {m[k] : k \in DOMAIN m}

\* Mutant: the is_empty() guard is forgotten.
ParamPresentNoEmptyCheck(p) == p # NoParam

\* `Some(id) if !id.is_empty()`
ParamPresent(p) == p # NoParam /\ p # ""

\* Text frames are kept as the sequence of pieces format!() concatenates.
AckText(wid, sid) == <<"Connected as Watcher: ", wid, " to Streamer: ", sid>>
WhoisText(n) == <<"{ \"name\": \"", n, "\" }">>
ErrUnknownCommand == <<"{\"error\": \"Unknown command\"}">>
ErrInvalidFormat == <<"{\"error\": \"Invalid command format\"}">>
\* Mutant: the parse failure is answered with the wrong error.
ErrInvalidJsonAsUnknown == <<"{\"error\": \"Unknown command\"}">>

ErrInvalidJson == <<"{\"error\": \"Invalid JSON\"}">>
ListText(keys) == <<"[">> \o keys \o <<"]">>

\* The orders in which a HashMap may iterate its keys.
KeyOrders(m) ==
    {q \in [1..Cardinality(DOMAIN m) -> DOMAIN m] :
        \A i, j \in 1..Cardinality(DOMAIN m) : i # j => q[i] # q[j]}

\* Mailbox messages.
AddWatcher(wid, addr) == [type |-> "AddWatcher", watcher_id |-> wid, addr |-> addr, message |-> NoField]
RemoveWatcher(wid) == [type |-> "RemoveWatcher", watcher_id |-> wid, addr |-> 0, message |-> NoField]
BroadcastMessage(m) == [type |-> "BroadcastMessage", watcher_id |-> NoField, addr |-> 0, message |-> m]

\* Addr::do_send: enqueue unless the receiving actor has stopped (the
\* mailbox is closed and the error is ignored).
DoSend(boxes, states, addr, msg) ==
    IF states[addr] = "stopped" THEN boxes
    ELSE [boxes EXCEPT ![addr] = Append(@, msg)]

\* `for watcher_addr in self.watchers.values() { watcher_addr.do_send(..) }`
RECURSIVE FanOutKeys(_, _, _, _, _)
FanOutKeys(boxes, states, ws, keys, msg) ==
    IF keys = {} THEN boxes
    ELSE LET k == CHOOSE x \in keys : TRUE
         IN FanOutKeys(DoSend(boxes, states, ws[k], msg), states, ws, keys \ {k}, msg)

\* Mutant: the loop skips one entry of the map.
FanOutSkipsOne(boxes, states, ws, msg) ==
    IF DOMAIN ws = {} THEN boxes
    ELSE FanOutKeys(boxes, states, ws, DOMAIN ws \ {CHOOSE x \in DOMAIN ws : TRUE}, msg)

\* Mutant: a failed send aborts the whole loop.
FanOutAbortsOnFailure(boxes, states, ws, msg) ==
    IF \E k \in DOMAIN ws : states[ws[k]] = "stopped" THEN boxes
    ELSE FanOutKeys(boxes, states, ws, DOMAIN ws, msg)

FanOut(boxes, states, ws, msg) == FanOutKeys(boxes, states, ws, DOMAIN ws, msg)

\* ---------------------------------------------------------------- Init
BroadcastFrame(m) == [text |-> TRUE, json |-> TRUE, command |-> "broadcast", message |-> m]

NoResponse == [status |-> "", body |-> ""]
NoFrame == [text |-> FALSE, json |-> FALSE, command |-> "", message |-> NoField]

Init ==
    /\ STREAMERS = EmptyMap
    /\ sState = [s \in StreamerActors |-> "unused"]
    /\ name = [s \in StreamerActors |-> ""]
    /\ watchers = [s \in StreamerActors |-> EmptyMap]
    /\ sMailbox = [s \in StreamerActors |-> <<>>]
    /\ sOut = [s \in StreamerActors |-> <<>>]
    /\ wState = [w \in WatcherActors |-> "unused"]
    /\ watcher_id = [w \in WatcherActors |-> ""]
    /\ streamer_id = [w \in WatcherActors |-> ""]
    /\ wMailbox = [w \in WatcherActors |-> <<>>]
    /\ wOut = [w \in WatcherActors |-> <<>>]
    /\ requests = 0
    /\ response = NoResponse
    /\ frames = 0
    /\ lastFrame = NoFrame

\* ---------------------------------------------------------------- HTTP handlers
Respond(status, body) ==
    /\ requests' = requests + 1
    /\ response' = [status |-> status, body |-> body]

FreeStreamer == {s \in StreamerActors : sState[s] = "unused"}
FreeWatcher == {w \in WatcherActors : wState[w] = "unused"}

\* streamer_ws: GET /streamer?id=<id>. upgrade: the request is a valid
\* websocket handshake (ws::start fails otherwise).
streamer_ws(id, upgrade) ==
    /\ IF ~ParamPresent(id)
       THEN /\ Respond("BadRequest", "Missing 'id' query parameter")
            /\ UNCHANGED <<STREAMERS, sVars, wVars, frames, lastFrame>>
       ELSE IF ~upgrade
       THEN /\ Respond("HandshakeError", "")
            /\ UNCHANGED <<STREAMERS, sVars, wVars, frames, lastFrame>>
       ELSE /\ FreeStreamer # {}
            /\ LET s == CHOOSE x \in FreeStreamer : \A y \in FreeStreamer : x <= y
               IN /\ sState' = [sState EXCEPT ![s] = "created"]
                  /\ name' = [name EXCEPT ![s] = id]
                  /\ watchers' = [watchers EXCEPT ![s] = EmptyMap]
            /\ Respond("SwitchingProtocols", "")
            /\ UNCHANGED <<STREAMERS, sMailbox, sOut, wVars, frames, lastFrame>>

\* Mutant: the existence check always passes.
StreamerExistsAlways(store, sid) == TRUE

\* `store.contains_key(&streamer_id)`
StreamerExists(store, sid) == sid \in DOMAIN store

\* watcher_ws: GET /watcher?id=<id>&streamer_id=<sid>.
watcher_ws(id, sid, upgrade) ==
    /\ IF ~ParamPresent(id)
       THEN /\ Respond("BadRequest", "Missing 'id' query parameter")
            /\ UNCHANGED <<STREAMERS, sVars, wVars, frames, lastFrame>>
       ELSE IF ~ParamPresent(sid)
       THEN /\ Respond("BadRequest", "Missing 'streamer_id' query parameter")
            /\ UNCHANGED <<STREAMERS, sVars, wVars, frames, lastFrame>>
       ELSE IF ~StreamerExists(STREAMERS, sid)
       THEN /\ Respond("BadRequest", "Streamer does not exist")
            /\ UNCHANGED <<STREAMERS, sVars, wVars, frames, lastFrame>>
       ELSE IF ~upgrade
       THEN /\ Respond("HandshakeError", "")
            /\ UNCHANGED <<STREAMERS, sVars, wVars, frames, lastFrame>>
       ELSE /\ FreeWatcher # {}
            /\ LET w == CHOOSE x \in FreeWatcher : \A y \in FreeWatcher : x <= y
               IN /\ wState' = [wState EXCEPT ![w] = "created"]
                  /\ watcher_id' = [watcher_id EXCEPT ![w] = id]
                  /\ streamer_id' = [streamer_id EXCEPT ![w] = sid]
            /\ Respond("SwitchingProtocols", "")
            /\ UNCHANGED <<STREAMERS, sVars, wMailbox, wOut, frames, lastFrame>>

\* ---------------------------------------------------------------- actor lifecycle
\* StreamerWebSocket::started
StreamerStarted(s) ==
    /\ sState[s] = "created"
    /\ sState' = [sState EXCEPT ![s] = "running"]
    /\ STREAMERS' = MapInsert(STREAMERS, name[s], s)
    /\ UNCHANGED <<name, watchers, sMailbox, sOut, wVars, requests, response, frames, lastFrame>>

\* StreamerWebSocket::stopped, run when the client's stream ends; the actor,
\* its watchers map and its mailbox are dropped.
StreamerStopped(s) ==
    /\ sState[s] = "running"
    /\ sState' = [sState EXCEPT ![s] = "stopped"]
    /\ STREAMERS' = MapRemove(STREAMERS, name[s])
    /\ watchers' = [watchers EXCEPT ![s] = EmptyMap]
    /\ sMailbox' = [sMailbox EXCEPT ![s] = <<>>]
    /\ UNCHANGED <<name, sOut, wVars, requests, response, frames, lastFrame>>

\* WatcherWebSocket::started
WatcherStarted(w) ==
    /\ wState[w] = "created"
    /\ wState' = [wState EXCEPT ![w] = "running"]
    /\ IF streamer_id[w] \in DOMAIN STREAMERS
       THEN /\ sMailbox' = DoSend(sMailbox, sState, STREAMERS[streamer_id[w]],
                                  AddWatcher(watcher_id[w], w))
            /\ wOut' = [wOut EXCEPT ![w] = Append(@, AckText(watcher_id[w], streamer_id[w]))]
       ELSE UNCHANGED <<sMailbox, wOut>>
    /\ UNCHANGED <<STREAMERS, sState, name, watchers, sOut, watcher_id, streamer_id,
                   wMailbox, requests, response, frames, lastFrame>>

\* WatcherWebSocket::stopped
WatcherStopped(w) ==
    /\ wState[w] = "running"
    /\ wState' = [wState EXCEPT ![w] = "stopped"]
    /\ wMailbox' = [wMailbox EXCEPT ![w] = <<>>]
    /\ IF streamer_id[w] \in DOMAIN STREAMERS
       THEN sMailbox' = DoSend(sMailbox, sState, STREAMERS[streamer_id[w]],
                               RemoveWatcher(watcher_id[w]))
       ELSE UNCHANGED sMailbox
    /\ UNCHANGED <<STREAMERS, sState, name, watchers, sOut, watcher_id, streamer_id,
                   wOut, requests, response, frames, lastFrame>>

\* ---------------------------------------------------------------- streamer mailbox
\* Handler<AddWatcher> for StreamerWebSocket
HandleAddWatcher(s) ==
    /\ sState[s] = "running"
    /\ sMailbox[s] # <<>>
    /\ Head(sMailbox[s]).type = "AddWatcher"
    /\ watchers' = [watchers EXCEPT ![s] =
                      MapInsert(@, Head(sMailbox[s]).watcher_id, Head(sMailbox[s]).addr)]
    /\ sMailbox' = [sMailbox EXCEPT ![s] = Tail(@)]
    /\ UNCHANGED <<STREAMERS, sState, name, sOut, wVars, requests, response, frames, lastFrame>>

\* Mutant: removing an absent watcher_id is an error that stops the actor.
HandleRemoveWatcherStrict(s) ==
    /\ sState[s] = "running"
    /\ sMailbox[s] # <<>>
    /\ Head(sMailbox[s]).type = "RemoveWatcher"
    /\ IF Head(sMailbox[s]).watcher_id \in DOMAIN watchers[s]
       THEN /\ watchers' = [watchers EXCEPT ![s] = MapRemove(@, Head(sMailbox[s]).watcher_id)]
            /\ sMailbox' = [sMailbox EXCEPT ![s] = Tail(@)]
            /\ UNCHANGED <<STREAMERS, sState>>
       ELSE /\ sState' = [sState EXCEPT ![s] = "stopped"]
            /\ STREAMERS' = MapRemove(STREAMERS, name[s])
            /\ watchers' = [watchers EXCEPT ![s] = EmptyMap]
            /\ sMailbox' = [sMailbox EXCEPT ![s] = <<>>]
    /\ UNCHANGED <<name, sOut, wVars, requests, response, frames, lastFrame>>

\* Handler<RemoveWatcher> for StreamerWebSocket
HandleRemoveWatcher(s) ==
    /\ sState[s] = "running"
    /\ sMailbox[s] # <<>>
    /\ Head(sMailbox[s]).type = "RemoveWatcher"
    /\ watchers' = [watchers EXCEPT ![s] = MapRemove(@, Head(sMailbox[s]).watcher_id)]
    /\ sMailbox' = [sMailbox EXCEPT ![s] = Tail(@)]
    /\ UNCHANGED <<STREAMERS, sState, name, sOut, wVars, requests, response, frames, lastFrame>>

\* Handler<BroadcastMessage> for StreamerWebSocket
HandleBroadcastMessage(s) ==
    /\ sState[s] = "running"
    /\ sMailbox[s] # <<>>
    /\ Head(sMailbox[s]).type = "BroadcastMessage"
    /\ wMailbox' = FanOut(wMailbox, wState, watchers[s],
                          BroadcastMessage(Head(sMailbox[s]).message))
    /\ sMailbox' = [sMailbox EXCEPT ![s] = Tail(@)]
    /\ UNCHANGED <<STREAMERS, sState, name, watchers, sOut, wState, watcher_id,
                   streamer_id, wOut, requests, response, frames, lastFrame>>

\* Handler<BroadcastMessage> for WatcherWebSocket
WatcherHandleBroadcast(w) ==
    /\ wState[w] = "running"
    /\ wMailbox[w] # <<>>
    /\ wOut' = [wOut EXCEPT ![w] = Append(@, <<Head(wMailbox[w]).message>>)]
    /\ wMailbox' = [wMailbox EXCEPT ![w] = Tail(@)]
    /\ UNCHANGED <<STREAMERS, sVars, wState, watcher_id, streamer_id, requests, response, frames, lastFrame>>

\* ---------------------------------------------------------------- inbound frames
\* A stream handler is called with frame f.
Receive(f) ==
    /\ frames' = frames + 1
    /\ lastFrame' = f

\* Mutant: a missing message is broadcast all the same.
HasMessageAlways(f) == TRUE

\* `if let Some(message) = json.get("message").and_then(|m| m.as_str())`
HasMessage(f) == f.message # NoField

\* StreamHandler for StreamerWebSocket
StreamerFrame(s, f) ==
    /\ sState[s] = "running"
    /\ Receive(f)
    /\ IF ~f.text THEN UNCHANGED <<sOut, wMailbox>>
       ELSE IF ~f.json
       THEN /\ sOut' = [sOut EXCEPT ![s] = Append(@, ErrInvalidJson)]
            /\ UNCHANGED wMailbox
       ELSE IF f.command = NoField
       THEN /\ sOut' = [sOut EXCEPT ![s] = Append(@, ErrInvalidFormat)]
            /\ UNCHANGED wMailbox
       ELSE IF f.command = "list"
       THEN /\ \E q \in KeyOrders(watchers[s]) :
                   sOut' = [sOut EXCEPT ![s] = Append(@, ListText(q))]
            /\ UNCHANGED wMailbox
       ELSE IF f.command = "whois"
       THEN /\ sOut' = [sOut EXCEPT ![s] = Append(@, WhoisText(name[s]))]
            /\ UNCHANGED wMailbox
       ELSE IF f.command = "broadcast"
       THEN /\ IF HasMessage(f)
               THEN wMailbox' = FanOut(wMailbox, wState, watchers[s], BroadcastMessage(f.message))
               ELSE UNCHANGED wMailbox
            /\ UNCHANGED sOut
       ELSE /\ sOut' = [sOut EXCEPT ![s] = Append(@, ErrUnknownCommand)]
            /\ UNCHANGED wMailbox
    /\ UNCHANGED <<STREAMERS, sState, name, watchers, sMailbox, wState, watcher_id,
                   streamer_id, wOut, requests, response>>

\* Mutant: the broadcast goes to every streamer in the store.
BroadcastTargetsAll(store, sid) == MapValues(store)

\* The streamers a watcher's broadcast is sent to: `store.get(&self.streamer_id)`.
BroadcastTargets(store, sid) == IF sid \in DOMAIN store THEN {store[sid]} ELSE {}

\* StreamHandler for WatcherWebSocket
WatcherFrame(w, f) ==
    /\ wState[w] = "running"
    /\ Receive(f)
    /\ IF ~f.text THEN UNCHANGED <<wOut, sMailbox>>
       ELSE IF ~f.json
       THEN /\ wOut' = [wOut EXCEPT ![w] = Append(@, ErrInvalidJson)]
            /\ UNCHANGED sMailbox
       ELSE IF f.command = NoField
       THEN /\ wOut' = [wOut EXCEPT ![w] = Append(@, ErrInvalidFormat)]
            /\ UNCHANGED sMailbox
       ELSE IF f.command = "broadcast"
       THEN /\ IF HasMessage(f)
               THEN sMailbox' = [s \in StreamerActors |->
                       IF s \in BroadcastTargets(STREAMERS, streamer_id[w])
                       THEN DoSend(sMailbox, sState, s, BroadcastMessage(f.message))[s]
                       ELSE sMailbox[s]]
               ELSE UNCHANGED sMailbox
            /\ UNCHANGED wOut
       ELSE /\ wOut' = [wOut EXCEPT ![w] = Append(@, ErrUnknownCommand)]
            /\ UNCHANGED sMailbox
    /\ UNCHANGED <<STREAMERS, sState, name, watchers, sOut, wState, watcher_id,
                   streamer_id, wMailbox, requests, response>>

\* ---------------------------------------------------------------- specification
\* The steps of the actors themselves: lifecycle hooks and mailbox handlers.
ActorStep ==
    \/ \E s \in StreamerActors : StreamerStarted(s)
    \/ \E s \in StreamerActors : StreamerStopped(s)
    \/ \E w \in WatcherActors : WatcherStarted(w)
    \/ \E w \in WatcherActors : WatcherStopped(w)
    \/ \E s \in StreamerActors : HandleAddWatcher(s)
    \/ \E s \in StreamerActors : HandleRemoveWatcher(s)
    \/ \E s \in StreamerActors : HandleBroadcastMessage(s)
    \/ \E w \in WatcherActors : WatcherHandleBroadcast(w)

\* Clients send any join request and broadcast frames.
Next ==
    \/ /\ requests < MaxRequests
       /\ \E id \in NameParams, u \in BOOLEAN : streamer_ws(id, u)
    \/ /\ requests < MaxRequests
       /\ \E id \in IdParams, sid \in NameParams, u \in BOOLEAN : watcher_ws(id, sid, u)
    \/ ActorStep
    \/ /\ frames < MaxFrames
       /\ \E s \in StreamerActors, f \in BroadcastFrames : StreamerFrame(s, f)
    \/ /\ frames < MaxFrames
       /\ \E w \in WatcherActors, f \in BroadcastFrames : WatcherFrame(w, f)

Spec == Init /\ [][Next]_vars

\* One channel, "x": clients send well-formed joins for it and every kind of
\* frame.
NextCommands ==
    \/ /\ requests < MaxCmdRequests
       /\ streamer_ws("x", TRUE)
    \/ /\ requests < MaxCmdRequests
       /\ \E id \in WatcherIds : watcher_ws(id, "x", TRUE)
    \/ ActorStep
    \/ /\ frames < MaxFrames
       /\ \E s \in StreamerActors, f \in InboundFrames : StreamerFrame(s, f)
    \/ /\ frames < MaxFrames
       /\ \E w \in WatcherActors, f \in InboundFrames : WatcherFrame(w, f)

SpecCommands == Init /\ [][NextCommands]_vars

\* One channel, "x": clients send well-formed joins for it and broadcast
\* frames.
RoomJoin ==
    /\ requests < MaxRoomRequests
    /\ \/ streamer_ws("x", TRUE)
       \/ \E id \in WatcherIds : watcher_ws(id, "x", TRUE)

NextRoom ==
    \/ RoomJoin
    \/ ActorStep
    \/ /\ frames < MaxFrames
       /\ \E s \in StreamerActors, m \in Messages : StreamerFrame(s, BroadcastFrame(m))
    \/ /\ frames < MaxFrames
       /\ \E w \in WatcherActors, m \in Messages : WatcherFrame(w, BroadcastFrame(m))

\* The same channel where each client sends a text of its own: the
\* streamer's client StreamerPayload and the client of watcher connection w
\* WatcherPayloads[w], so a message in flight names the connection it came
\* from.
StreamerPayload == "m"
WatcherPayloads == <<"m1", "m2", "m3", "m4">>

NextOrder ==
    \/ RoomJoin
    \/ ActorStep
    \/ /\ frames < MaxFrames
       /\ \E s \in StreamerActors : StreamerFrame(s, BroadcastFrame(StreamerPayload))
    \/ /\ frames < MaxFrames
       /\ \E w \in WatcherActors : WatcherFrame(w, BroadcastFrame(WatcherPayloads[w]))

SpecOrder == Init /\ [][NextOrder]_vars

\* The streamers handle their mailboxes and watcher 1 handles its own; the
\* other watchers may never be scheduled again (a member that never drains
\* its mailbox).
RoomFairness ==
    /\ \A s \in StreamerActors :
          /\ WF_vars(HandleAddWatcher(s))
          /\ WF_vars(HandleRemoveWatcher(s))
          /\ WF_vars(HandleBroadcastMessage(s))
    /\ WF_vars(WatcherHandleBroadcast(1))

SpecRoom == Init /\ [][NextRoom]_vars /\ RoomFairness

TypeOK ==
    /\ \A n \in DOMAIN STREAMERS : STREAMERS[n] \in StreamerActors
    /\ \A s \in StreamerActors : sState[s] \in {"unused", "created", "running", "stopped"}
    /\ \A w \in WatcherActors : wState[w] \in {"unused", "created", "running", "stopped"}
\* ---------------------------------------------------------------- properties
Range(q) == {q[i] : i \in DOMAIN q}

\* The watcher was sent the join acknowledgment and has not stopped.
Joined(w) ==
    /\ wState[w] = "running"
    /\ AckText(watcher_id[w], streamer_id[w]) \in Range(wOut[w])

\* Watcher w is the connection stored under its identity in streamer s.
RegisteredWith(w, s) ==
    /\ sState[s] = "running"
    /\ watcher_id[w] \in DOMAIN watchers[s]
    /\ watchers[s][watcher_id[w]] = w

\* C1 (as claimed): when AddWatcher is handled for a watcher_id already in
\* the map, the connection stored before is sent a forced close in the same
\* step (a close message in its mailbox) or is no longer running.
C1_PriorHolderEvicted ==
    [][\A s \in StreamerActors :
         (HandleAddWatcher(s) /\ Head(sMailbox[s]).watcher_id \in DOMAIN watchers[s]) =>
             LET old == watchers[s][Head(sMailbox[s]).watcher_id]
             IN \/ wState'[old] # "running"
                \/ \E i \in DOMAIN wMailbox'[old] : wMailbox'[old][i].type = "Close"]_vars

\* C2 (as claimed): at most one running connection considers itself joined
\* to a channel under a given identity.
C2_OneLiveConnectionPerIdentity ==
    \A w1, w2 \in WatcherActors :
        (/\ Joined(w1) /\ Joined(w2)
         /\ streamer_id[w1] = streamer_id[w2]
         /\ watcher_id[w1] = watcher_id[w2]) => w1 = w2

\* A step in which streamer s fans out payload m: it handles a
\* BroadcastMessage from its mailbox or a broadcast command frame.
BroadcastStep(s, m) ==
    \/ HandleBroadcastMessage(s) /\ Head(sMailbox[s]).message = m
    \/ StreamerFrame(s, BroadcastFrame(m))

\* C3 (as claimed): a broadcast of m handled while the map is M enqueues m
\* exactly once to every member of M and to no other connection.
C3_FanOutToEveryMember ==
    [][\A s \in StreamerActors, m \in Messages :
         BroadcastStep(s, m) =>
             \A w \in WatcherActors :
                 wMailbox'[w] = IF w \in MapValues(watchers[s])
                                THEN Append(wMailbox[w], BroadcastMessage(m))
                                ELSE wMailbox[w]]_vars

\* C3 (amended): a broadcast of m handled while the map is M enqueues m
\* exactly once to every member of M that has not stopped, and to no other
\* connection.
C3_FanOutToLiveMembers ==
    [][\A s \in StreamerActors, m \in Messages :
         BroadcastStep(s, m) =>
             \A w \in WatcherActors :
                 wMailbox'[w] = IF w \in MapValues(watchers[s]) /\ wState[w] # "stopped"
                                THEN Append(wMailbox[w], BroadcastMessage(m))
                                ELSE wMailbox[w]]_vars

\* A fan-out reached a member while another running watcher of the same
\* streamer name, not in the map at that time, got nothing.
C3_Witness ==
    \E w1, w2 \in WatcherActors :
        /\ w1 # w2
        /\ wState[w1] = "running" /\ wState[w2] = "running"
        /\ streamer_id[w1] = streamer_id[w2]
        /\ wMailbox[w1] # <<>>
        /\ wMailbox[w2] = <<>> /\ Len(wOut[w2]) <= 1

\* C4 (as claimed): when a registered watcher stops, a removal for its
\* identity is enqueued to the streamer instance it is registered with.
C4_RemovalReachesOwnChannel ==
    [][\A w \in WatcherActors, s \in StreamerActors :
         (WatcherStopped(w) /\ RegisteredWith(w, s)) =>
             sMailbox'[s] = Append(sMailbox[s], RemoveWatcher(watcher_id[w]))]_vars

\* C5 (as claimed): at most one streamer instance is running for a name.
C5_OneInstancePerName ==
    \A s1, s2 \in StreamerActors :
        (sState[s1] = "running" /\ sState[s2] = "running" /\ name[s1] = name[s2]) => s1 = s2

\* C6 (as claimed): a watcher that was acknowledged and has not stopped is
\* in the membership map of a running streamer.
C6_AckImpliesRegistered ==
    \A w \in WatcherActors : Joined(w) => \E s \in StreamerActors : RegisteredWith(w, s)

\* C7: a watcher join whose streamer_id is not in the store is answered
\* with BadRequest, starts no actor and changes no registry or actor state.
C7_UnknownStreamerRejected ==
    [][\A id \in IdParams, sid \in NameParams, u \in BOOLEAN :
         (requests' # requests /\ sid \notin DOMAIN STREAMERS /\ watcher_ws(id, sid, u)) =>
             /\ response'.status = "BadRequest"
             /\ UNCHANGED <<STREAMERS, sVars, wVars>>]_vars

C7_Witness ==
    /\ response = [status |-> "BadRequest", body |-> "Streamer does not exist"]
    /\ DOMAIN STREAMERS # {}

\* C8: a join whose id (or, for a watcher, streamer_id) is absent or empty is
\* answered with BadRequest, starts no actor and changes no registry or
\* actor state.
C8_MissingParameterRejected ==
    [][\A id \in IdParams \cup NameParams, sid \in NameParams, u \in BOOLEAN :
         (/\ requests' # requests
          /\ \/ id \in {NoParam, ""} /\ streamer_ws(id, u)
             \/ (id \in {NoParam, ""} \/ sid \in {NoParam, ""}) /\ watcher_ws(id, sid, u)) =>
             /\ response'.status = "BadRequest"
             /\ UNCHANGED <<STREAMERS, sVars, wVars>>]_vars

C8_Witness ==
    /\ response = [status |-> "BadRequest", body |-> "Missing 'streamer_id' query parameter"]
    /\ DOMAIN STREAMERS # {}

\* Everything that belongs to channel n: its registry entry, the streamers
\* of that name and the watchers attached to that name.
ChannelView(n) ==
    <<IF n \in DOMAIN STREAMERS THEN STREAMERS[n] ELSE 0,
      [s \in StreamerActors |->
          IF name[s] = n THEN <<sState[s], watchers[s], sMailbox[s], sOut[s]>> ELSE <<>>],
      [w \in WatcherActors |->
          IF streamer_id[w] = n THEN <<wState[w], wMailbox[w], wOut[w]>> ELSE <<>>]>>

\* The step is an operation on channel n.
OpOn(n) ==
    \/ \E u \in BOOLEAN : streamer_ws(n, u)
    \/ \E id \in IdParams, u \in BOOLEAN : watcher_ws(id, n, u)
    \/ \E s \in StreamerActors :
          /\ name[s] = n
          /\ \/ StreamerStarted(s) \/ StreamerStopped(s)
             \/ HandleAddWatcher(s) \/ HandleRemoveWatcher(s) \/ HandleBroadcastMessage(s)
             \/ \E f \in InboundFrames : StreamerFrame(s, f)
    \/ \E w \in WatcherActors :
          /\ streamer_id[w] = n
          /\ \/ WatcherStarted(w) \/ WatcherStopped(w) \/ WatcherHandleBroadcast(w)
             \/ \E f \in InboundFrames : WatcherFrame(w, f)

C10_BroadcastWithoutMessageIsNoOp ==
    [][/\ \A s \in StreamerActors :
            StreamerFrame(s, BroadcastFrame(NoField)) => UNCHANGED <<STREAMERS, sVars, wVars>>
       /\ \A w \in WatcherActors :
            WatcherFrame(w, BroadcastFrame(NoField)) => UNCHANGED <<STREAMERS, sVars, wVars>>]_vars

\* The only frame handled so far was a broadcast without message, received
\* by the one streamer or by its one registered, acknowledged watcher, and
\* no reply and no delivery resulted.
C10_Witness ==
    /\ frames = 1
    /\ lastFrame = BroadcastFrame(NoField)
    /\ \E s \in StreamerActors, w \in WatcherActors :
          /\ RegisteredWith(w, s) /\ Joined(w)
          /\ \A s2 \in StreamerActors \ {s} : sState[s2] = "unused"
          /\ \A w2 \in WatcherActors \ {w} : wState[w2] = "unused"
    /\ \A s \in StreamerActors : sOut[s] = <<>> /\ sMailbox[s] = <<>>
    /\ \A w \in WatcherActors : wMailbox[w] = <<>> /\ Len(wOut[w]) <= 1

\* The protocol's commands, and the error frame a bad text frame must be
\* answered with.
ProtocolCommands == {"list", "whois", "broadcast"}
BadFrame(f) == f.text /\ (~f.json \/ f.command \notin ProtocolCommands)
ExpectedError(f) ==
    IF ~f.json THEN <<"{\"error\": \"Invalid JSON\"}">>
    ELSE IF f.command = NoField THEN <<"{\"error\": \"Invalid command format\"}">>
    ELSE <<"{\"error\": \"Unknown command\"}">>

\* C11: a text frame that is not JSON, has no string command, or names a
\* command outside the protocol makes its receiver write exactly one frame,
\* the matching error, to its own client; no other connection is written to,
\* no mailbox, membership map or registry entry changes, and the receiver
\* stays running.
C11_BadFrameGetsOneError ==
    [][\A f \in InboundFrames :
         BadFrame(f) =>
            /\ \A s \in StreamerActors :
                 StreamerFrame(s, f) =>
                    /\ sOut' = [sOut EXCEPT ![s] = Append(@, ExpectedError(f))]
                    /\ UNCHANGED <<STREAMERS, sState, name, watchers, sMailbox, wVars>>
            /\ \A w \in WatcherActors :
                 WatcherFrame(w, f) =>
                    /\ wOut' = [wOut EXCEPT ![w] = Append(@, ExpectedError(f))]
                    /\ UNCHANGED <<STREAMERS, sVars, wState, watcher_id, streamer_id,
                                   wMailbox>>]_vars

\* A registered, acknowledged watcher answered a non-JSON frame and is still
\* running and registered.
C11_Witness ==
    /\ lastFrame.text /\ ~lastFrame.json
    /\ \E s \in StreamerActors, w \in WatcherActors :
          /\ RegisteredWith(w, s) /\ Joined(w)
          /\ wOut[w] = <<AckText(watcher_id[w], streamer_id[w]),
                         <<"{\"error\": \"Invalid JSON\"}">> >>

ListFrame == [text |-> TRUE, json |-> TRUE, command |-> "list", message |-> NoField]
JsonArray(q) == <<"[">> \o q \o <<"]">>

\* C12 (as claimed): a list command sent by a running streamer, or by a
\* watcher that is acknowledged and registered, is answered to the sender
\* with a JSON array of exactly the keys of the channel's membership map,
\* and the map is left unchanged.
C12_ListAnsweredWithMembers ==
    [][/\ \A s \in StreamerActors :
            StreamerFrame(s, ListFrame) =>
                /\ \E q \in KeyOrders(watchers[s]) :
                      sOut' = [sOut EXCEPT ![s] = Append(@, JsonArray(q))]
                /\ watchers' = watchers
       /\ \A w \in WatcherActors, s \in StreamerActors :
            (Joined(w) /\ RegisteredWith(w, s) /\ WatcherFrame(w, ListFrame)) =>
                /\ \E q \in KeyOrders(watchers[s]) :
                      wOut' = [wOut EXCEPT ![w] = Append(@, JsonArray(q))]
                /\ watchers' = watchers]_vars

\* C13: when a streamer fans out m, every member of its map that has not
\* stopped is enqueued m whatever the state of the other members; a stopped
\* member gets nothing, nothing is put back into the streamer's mailbox for
\* a retry, and the streamer stays running with the rest of its mailbox.
\* A member that keeps being scheduled then writes m to its client unless
\* it stops first, even if the other members never handle their mailboxes.
C13_DeliveryIsIndependent ==
    /\ [][\A s \in StreamerActors, m \in Messages :
            BroadcastStep(s, m) =>
               /\ \A w \in WatcherActors :
                    (w \in MapValues(watchers[s]) /\ wState[w] = "running") =>
                        wMailbox'[w] = Append(wMailbox[w], BroadcastMessage(m))
               /\ \A w \in WatcherActors :
                    wState[w] = "stopped" => wMailbox'[w] = wMailbox[w]
               /\ Len(sMailbox'[s]) <= Len(sMailbox[s])
               /\ sState'[s] = "running"]_vars
    /\ \A m \in Messages :
          (wState[1] = "running" /\ BroadcastMessage(m) \in Range(wMailbox[1]))
              ~> (<<m>> \in Range(wOut[1]) \/ wState[1] = "stopped")

\* A streamer's map holds a stopped watcher and a running one, and the
\* running one has written a broadcast to its client.
C13_Witness ==
    \E s \in StreamerActors, w1, w2 \in WatcherActors :
        /\ sState[s] = "running"
        /\ w1 \in MapValues(watchers[s]) /\ wState[w1] = "stopped"
        /\ w2 \in MapValues(watchers[s]) /\ wState[w2] = "running"
        /\ \E m \in Messages : <<m>> \in Range(wOut[w2])

\* C14 (as claimed): a running watcher that was never sent its join
\* acknowledgment hands no broadcast to any streamer: its broadcast frame
\* leaves every streamer mailbox as it was.
C14_UnackedWatcherNeverBroadcasts ==
    [][\A w \in WatcherActors, m \in Messages \cup {NoField} :
         (/\ AckText(watcher_id[w], streamer_id[w]) \notin Range(wOut[w])
          /\ WatcherFrame(w, BroadcastFrame(m))) =>
             sMailbox' = sMailbox]_vars

\* C15 (as claimed): what one connection sends to its channel takes effect
\* in the order sent: when a streamer handles the broadcast of watcher w,
\* the join of w is no longer waiting in any streamer's mailbox.
C15_JoinTakesEffectBeforeBroadcast ==
    [][\A s \in StreamerActors, w \in WatcherActors :
         (HandleBroadcastMessage(s) /\ Head(sMailbox[s]).message = WatcherPayloads[w]) =>
             \A s2 \in StreamerActors :
                 AddWatcher(watcher_id[w], w) \notin Range(sMailbox[s2])]_vars

\* C16: handling RemoveWatcher leaves the watcher_id absent from the map and
\* every other entry as it was; when the watcher_id is already absent the
\* map is unchanged, so a repeated removal equals a single one.  Either way
\* the streamer stays running, keeps the rest of its mailbox, and nothing
\* is written to its client or to any watcher.
C16_RemoveWatcherIsIdempotent ==
    [][\A s \in StreamerActors :
         HandleRemoveWatcher(s) =>
             LET k == Head(sMailbox[s]).watcher_id IN
             /\ k \notin DOMAIN watchers'[s]
             /\ \A j \in DOMAIN watchers[s] \ {k} :
                    j \in DOMAIN watchers'[s] /\ watchers'[s][j] = watchers[s][j]
             /\ DOMAIN watchers'[s] \subseteq DOMAIN watchers[s]
             /\ (k \notin DOMAIN watchers[s] => watchers' = watchers)
             /\ sState'[s] = "running"
             /\ sMailbox'[s] = Tail(sMailbox[s])
             /\ STREAMERS' = STREAMERS
             /\ sOut' = sOut /\ wOut' = wOut /\ wMailbox' = wMailbox]_vars

\* A RemoveWatcher for an absent watcher_id has been handled: the stopped
\* watcher w is still in the map of running streamer s1, so its removal went
\* to s2, which holds the name, never had w in its map, and has an empty
\* mailbox.
C16_Witness ==
    \E s1, s2 \in StreamerActors, w \in WatcherActors :
        /\ s1 # s2
        /\ sState[s1] = "running" /\ sState[s2] = "running"
        /\ name[s1] = name[s2] /\ streamer_id[w] = name[s1]
        /\ name[s1] \in DOMAIN STREAMERS /\ STREAMERS[name[s1]] = s2
        /\ wState[w] = "stopped"
        /\ watcher_id[w] \in DOMAIN watchers[s1] /\ watchers[s1][watcher_id[w]] = w
        /\ sMailbox[s1] = <<>> /\ sMailbox[s2] = <<>>
        /\ watchers[s2] = EmptyMap

WhoisFrame == [text |-> TRUE, json |-> TRUE, command |-> "whois", message |-> NoField]

\* Nothing but the reply is changed: the registry, the membership maps, the
\* mailboxes and the actors are as before.
QueryIsReadOnly ==
    /\ STREAMERS' = STREAMERS /\ watchers' = watchers
    /\ sMailbox' = sMailbox /\ wMailbox' = wMailbox
    /\ sState' = sState /\ wState' = wState

\* C17 (as claimed): a list or whois command is answered with exactly one
\* frame written to the sender and to no other connection, the whois reply
\* being a JSON object naming the sender (the streamer's name, the watcher's
\* watcher_id), and the registry and every membership map are unchanged.
C17_QueriesAreReadOnlyAndPrivate ==
    [][/\ \A s \in StreamerActors :
            /\ StreamerFrame(s, ListFrame) =>
                  /\ \E q \in KeyOrders(watchers[s]) :
                        sOut' = [sOut EXCEPT ![s] = Append(@, JsonArray(q))]
                  /\ wOut' = wOut /\ QueryIsReadOnly
            /\ StreamerFrame(s, WhoisFrame) =>
                  /\ sOut' = [sOut EXCEPT ![s] = Append(@, <<"{ \"name\": \"", name[s], "\" }">>)]
                  /\ wOut' = wOut /\ QueryIsReadOnly
       /\ \A w \in WatcherActors :
            /\ (Joined(w) /\ WatcherFrame(w, ListFrame)) =>
                  /\ Len(wOut'[w]) = Len(wOut[w]) + 1
                  /\ SubSeq(wOut'[w], 1, Len(wOut[w])) = wOut[w]
                  /\ \A v \in WatcherActors \ {w} : wOut'[v] = wOut[v]
                  /\ sOut' = sOut /\ QueryIsReadOnly
            /\ (Joined(w) /\ WatcherFrame(w, WhoisFrame)) =>
                  /\ wOut' = [wOut EXCEPT ![w] = Append(@, <<"{ \"name\": \"", watcher_id[w], "\" }">>)]
                  /\ sOut' = sOut /\ QueryIsReadOnly]_vars

\* C18 (as claimed): the removal sent by a stopping watcher never removes
\* another connection's registration: a handled RemoveWatcher leaves in the
\* map every entry whose stored connection is still running.
C18_RemovalSparesLiveReplacement ==
    [][\A s \in StreamerActors, w2 \in WatcherActors :
         (/\ HandleRemoveWatcher(s)
          /\ RegisteredWith(w2, s)
          /\ wState[w2] = "running") =>
             /\ watcher_id[w2] \in DOMAIN watchers'[s]
             /\ watchers'[s][watcher_id[w2]] = w2]_vars

\* C19 (as claimed): the registry maps a name only to a running streamer,
\* and the running streamer that holds the entry of its name (the last to
\* register under it) keeps the entry when another streamer stops.
C19_RegistryConsistent ==
    /\ [](\A n \in DOMAIN STREAMERS : sState[STREAMERS[n]] = "running")
    /\ [][\A s1, s2 \in StreamerActors :
            (/\ StreamerStopped(s1)
             /\ s2 # s1
             /\ sState[s2] = "running"
             /\ name[s2] \in DOMAIN STREAMERS
             /\ STREAMERS[name[s2]] = s2) =>
                /\ name[s2] \in DOMAIN STREAMERS'
                /\ STREAMERS'[name[s2]] = s2]_vars

\* C20 (as claimed): a streamer fans out a watcher's broadcast only while
\* that watcher is the connection stored under its watcher_id in the
\* streamer's own map.
C20_OnlyMembersBroadcast ==
    [][\A s \in StreamerActors, w \in WatcherActors :
         (HandleBroadcastMessage(s) /\ Head(sMailbox[s]).message = WatcherPayloads[w]) =>
             RegisteredWith(w, s)]_vars

\* No join is in progress and no message is waiting: every actor that was
\* created has started and every streamer mailbox is empty.
Quiescent ==
    /\ \A s \in StreamerActors : sState[s] # "created" /\ sMailbox[s] = <<>>
    /\ \A w \in WatcherActors : wState[w] # "created"

\* C21 (as claimed): once no join is in progress and all pending messages
\* are handled, every watcher_id in the map of a running streamer refers to
\* a watcher connection that has not stopped.
C21_MapsHoldOnlyLiveWatchers ==
    Quiescent =>
        \A s \in StreamerActors :
            sState[s] = "running" =>
                \A k \in DOMAIN watchers[s] : wState[watchers[s][k]] # "stopped"
====
